---- MODULE Spec2Model ----
(***************************************************************************)
(* SignerAgent (src/src/agent.ts): the routing of call, query, readState   *)
(* and createReadStateRequest between a delegated identity driving the     *)
(* transport directly and the external signer, the certified-response      *)
(* cache, the delegated-request marker set and the delegation cache kept   *)
(* in storage.                                                             *)
(*                                                                         *)
(* Every public operation is an async function.  A task is one invocation  *)
(* of a public operation; its pc names the await it is suspended on.  The  *)
(* code between two awaits runs without interruption (one JavaScript job), *)
(* so it is one step of the model.  An optional value (T | undefined) is   *)
(* the empty tuple or a one-element tuple.                                 *)
(***************************************************************************)
EXTENDS FiniteSets, Integers, Sequences, TLC

\* Number of public operations the embedding application issues in one run.
MaxOps == 3
\* Last instant of the clock delegation expirations are compared with.
MaxTime == 1
\* The channel registers, receives and sends at most this many times in all.
MaxChannelOps == 4

\* Concurrent invocations in flight on one SignerAgent instance.
Tasks == {"t1", "t2"}

Accounts == {"a1", "a2"}
\* The accounts options.getPrincipal resolves to.
CallerAccounts == {"a1"}
Canisters == {"c1", "c2"}
Principals == Accounts \cup Canisters

\* What the application asks for, and what a signer may put in a content map.
RequestMethods == {"transfer"}
SignerMethods == {"transfer", "approve"}
RequestArgs == {<<1>>}
SignerArgs == {<<1>>, <<2>>}
RequestTypes == {"call", "query"}
Nonces == {0}
Replies == {"r1"}

None == <<>>
Some(x) == <<x>>

----------------------------------------------------------------------------
(* Library functions the agent calls, by what they compute.                *)

\* Principal.compareTo: "eq" exactly for equal principals.
PrincipalRank(p) ==
    CASE p = "a1" -> 1 [] p = "a2" -> 2 [] p = "c1" -> 3 [] p = "c2" -> 4 [] OTHER -> 0

CompareTo(a, b) ==
    IF PrincipalRank(a) = PrincipalRank(b) THEN "eq"
    ELSE IF PrincipalRank(a) < PrincipalRank(b) THEN "lt" ELSE "gt"

\* compare(b1, b2) of @dfinity/agent: by length, then by the first differing byte.
RECURSIVE CompareFrom(_, _, _)
CompareFrom(b1, b2, i) ==
    IF i > Len(b1) THEN 0
    ELSE IF b1[i] # b2[i] THEN b1[i] - b2[i]
    ELSE CompareFrom(b1, b2, i + 1)

compare(b1, b2) ==
    IF Len(b1) # Len(b2) THEN Len(b1) - Len(b2) ELSE CompareFrom(b1, b2, 1)

\* requestIdOf: the hash of the request's fields; two requests have the same
\* identifier exactly when all their fields agree.
requestIdOf(body) ==
    <<body.request_type, body.canister_id, body.method_name, body.arg,
      body.sender, body.nonce>>

\* Buffer.from(bytes).toString("base64"): the text key of a byte string.
toBase64(bytes) == <<"base64", bytes>>

\* TextEncoder.encode / TextDecoder.decode: a path segment is either encoded
\* text or raw bytes (a request identifier), which decode to no label.
encode(text) == <<"utf8", text>>
decode(bytes) ==
    IF Len(bytes) = 2 /\ bytes[1] = "utf8" THEN bytes[2] ELSE "?"

\* JSON.stringify(x.toJSON()) and X.fromJSON(json); typeof of a stored value.
stringify(x) == <<"string", x>>
fromJSON(json) == json[2]
keyPairOf(identity) == <<"object", identity>>
fromKeyPair(value) == value[2]
typeof(value) == value[1]

\* identity.getPublicKey().toDer()
toDer(identity) == <<"der", identity.key>>

\* The public key of an account, and Principal.selfAuthenticating of it.
AccountKey(account) == <<"der", account>>
selfAuthenticating(publicKey) == publicKey[2]

----------------------------------------------------------------------------
(* Configuration (SignerAgentOptions) and the values collaborators return. *)

\* options.delegation.identity, when the application fixes one.
OverrideIdentity == [kind |-> "custom", key |-> 0]

\* The delegation options of the configurations explored: a fixed identity
\* with no, an empty or a one-canister target list; a generated identity of
\* either key type ("ECDSA" is the default), unscoped or scoped.
DelegationOptions ==
    {[identity |-> Some(OverrideIdentity), targets |-> tg, keyType |-> "ECDSA"] :
        tg \in {None, Some(<<>>), Some(<<"c1">>)}}
    \cup {[identity |-> None, targets |-> None, keyType |-> "ECDSA"],
          [identity |-> None, targets |-> Some(<<"c1">>), keyType |-> "Ed25519"]}

OptionsSet == [delegation : {None} \cup {Some(d) : d \in DelegationOptions}]

\* A content map as decoded into a CallRequest.
ContentMaps ==
    [request_type : RequestTypes, canister_id : Canisters,
     method_name : SignerMethods, arg : SignerArgs, sender : Accounts,
     nonce : Nonces]

\* The canister a read-state request is addressed to.
ReadStateCanisters == {"c1"}

\* Request identifiers the application may ask the status of.
RequestIds ==
    {requestIdOf(b) : b \in {c \in ContentMaps :
        /\ c.request_type = "call"
        /\ c.sender \in CallerAccounts
        /\ c.method_name \in RequestMethods
        /\ c.arg \in RequestArgs}}

\* A certificate for a request: the status and the reply its state tree holds
\* under request_status/<about>.
CertificatesOf(requestId) ==
    {[about |-> requestId, status |-> Some("replied"),  reply |-> Some("r1")],
     [about |-> requestId, status |-> Some("rejected"), reply |-> None],
     [about |-> requestId, status |-> None,             reply |-> None]}

\* certificate.lookup(path): the value at a path of the state tree.
lookup(certificate, path) ==
    IF Len(path) = 3 /\ decode(path[1]) = "request_status"
       /\ certificate.about = path[2]
    THEN IF path[3] = encode("status") THEN certificate.status
         ELSE IF path[3] = encode("reply") THEN certificate.reply
         ELSE None
    ELSE None

\* The delegation chains a signer answers getDelegation({principal, publicKey,
\* targets}) with: a chain of the account for the session key, long- or
\* short-lived, or restricted to another canister; or a chain delegated by
\* the key of another account (the agent does not compare the chain with its
\* request).
ChainsFor(principal, publicKey) ==
    LET chain(account, expiration, targets) ==
            [publicKey |-> AccountKey(account),
             delegations |-> <<[pubkey |-> publicKey, expiration |-> expiration,
                                targets |-> targets]>>]
    IN  {chain(principal, MaxTime + 1, None),
         chain(principal, 1, None),
         chain(principal, MaxTime + 1, Some({"c2"})),
         chain(CHOOSE a \in Accounts : a # principal, MaxTime + 1, None)}

----------------------------------------------------------------------------
(* State.                                                                  *)

VARIABLES
    options,              \* this.options, fixed at construction
    readStateResponses,   \* Map<string, ReadStateResponse>
    delegatedRequestIds,  \* Set<string>
    storage,              \* this.storage: key -> stored value
    tasks,                \* the invocations in flight, one record per task
    now,                  \* Date.now(), in the unit of delegation expirations
    generated,            \* base identities created so far
    started,              \* public operations issued so far
    windowClosed,         \* PostMessageChannel: this.options.window.closed
    windowMessages,       \* messages posted to this.options.window
    messageListeners,     \* "message" listeners the channel has on the global window
    registered,           \* registerListener calls so far
    messageEvents,        \* "message" events dispatched on the global window
    listenerCalls,        \* calls of the listeners handed to registerListener
    sendResults,          \* how each send settled
    removedListeners,     \* registrations whose returned function has been called
    closeCalled           \* close() has been called

\* The state of the agent and the state of the channel.
agentVars == <<options, readStateResponses, delegatedRequestIds, storage, tasks,
               now, generated, started>>
channelVars == <<windowClosed, windowMessages, messageListeners, registered,
                 messageEvents, listenerCalls, sendResults, removedListeners,
                 closeCalled>>

vars == <<agentVars, channelVars>>

\* The locals of an invocation that has not started.
IdleTask ==
    [op |-> "none", pc |-> "idle", inCall |-> FALSE,
     canisterId |-> "", methodName |-> "", arg |-> <<>>, paths |-> <<>>,
     sender |-> None, baseIdentity |-> None, json |-> None, delegationChain |-> None,
     delegationIdentity |-> None, requestBody |-> None, certificate |-> None,
     requestId |-> None, reply |-> None, response |-> None, request |-> None,
     error |-> ""]

\* Map.set, Map.delete, Map.get on a function with a finite domain.
MapSet(m, k, v) == [x \in DOMAIN m \cup {k} |-> IF x = k THEN v ELSE m[x]]
MapDelete(m, k) == [x \in DOMAIN m \ {k} |-> m[x]]
MapGet(m, k) == IF k \in DOMAIN m THEN Some(m[k]) ELSE None

\* constructor
Init ==
    /\ options \in OptionsSet
    /\ readStateResponses = <<>>
    /\ delegatedRequestIds = {}
    /\ storage = <<>>
    /\ tasks = [t \in Tasks |-> IdleTask]
    /\ now = 0
    /\ generated = 0
    /\ started = 0
    /\ windowClosed = FALSE
    /\ windowMessages = <<>>
    /\ messageListeners = {}
    /\ registered = 0
    /\ messageEvents = <<>>
    /\ listenerCalls = <<>>
    /\ sendResults = <<>>
    /\ removedListeners = {}
    /\ closeCalled = FALSE

\* Error messages of SignerAgentError, and the failure of a collaborator.
InvalidContentMap == "Received invalid content map from signer "
ResponseNotFoundInQuery == "Read state response could not be found"
MissingReply == "Certificate is missing reply"
InvalidReadState == "Invalid read state request, request id could not be found in options"
ResponseNotFound == "Invalid read state request, response could not be found"
InvalidChainInStorage == "Invalid delegation chain in storage"
CollaboratorError == "rejected by collaborator"

\* The operation throws: its locals are gone, the caller sees the error.  The
\* decoded content map and the requested paths are kept for the record.
Fail(r, message) ==
    [IdleTask EXCEPT !.op = r.op, !.pc = "failed", !.error = message,
                     !.paths = r.paths, !.requestBody = r.requestBody]

\* The operation returns: its locals are gone, the caller sees the result.
Done(r) ==
    [IdleTask EXCEPT !.op = r.op, !.pc = "done", !.paths = r.paths,
                     !.requestId = r.requestId,
                     !.requestBody = r.requestBody, !.certificate = r.certificate,
                     !.reply = r.reply, !.response = r.response,
                     !.request = r.request,
                     !.delegationIdentity =
                        IF r.op = "getDelegationIdentity" THEN r.delegationIdentity ELSE None]

----------------------------------------------------------------------------
(* The routing decision and the private helpers, as continuations of a     *)
(* task record r.                                                          *)

\* this.options.delegation.targets.some((target) => target.compareTo(target) === "eq"):
\* the arrow function's parameter shadows the requested target.
targetsSome(targets, target) ==
    \E i \in 1 .. Len(targets) : CompareTo(targets[i], targets[i]) = "eq"

\* The condition of "Make delegated call when possible" in call and query.
delegatedWhenPossible(target) ==
    /\ options.delegation # None
    /\ \/ options.delegation[1].targets = None
       \/ targetsSome(options.delegation[1].targets[1], target)

\* DelegationIdentity.fromDelegation(baseIdentity, delegationChain)
fromDelegation(baseIdentity, delegationChain) ==
    [inner |-> baseIdentity, delegation |-> delegationChain]
principalOf(identity) == selfAuthenticating(identity.delegation.publicKey)

\* The storage keys.
identityKey(sender) == <<"delegation-identity", sender>>
chainLookupKey(principal, publicKey) ==
    <<"delegation-chain", principal, toBase64(publicKey)>>
chainStoreKey(delegationChain) ==
    <<"delegation-chain", selfAuthenticating(delegationChain.publicKey),
      toBase64(delegationChain.delegations[Len(delegationChain.delegations)].pubkey)>>

\* isDelegationValid(chain, {scope}): no delegation expired, and every
\* delegation that names targets names every principal of the scope.
isDelegationValid(chain, scope) ==
    /\ \A i \in 1 .. Len(chain.delegations) : chain.delegations[i].expiration > now
    /\ scope # None =>
         \A j \in 1 .. Len(scope[1]) : \A i \in 1 .. Len(chain.delegations) :
            \/ chain.delegations[i].targets = None
            \/ scope[1][j] \in chain.delegations[i].targets[1]

\* this.options.delegation?.targets, ?.identity, ?.keyType
configuredTargets ==
    IF options.delegation = None THEN None ELSE options.delegation[1].targets
configuredIdentity ==
    IF options.delegation = None THEN None ELSE options.delegation[1].identity
configuredKeyType ==
    IF options.delegation = None THEN "" ELSE options.delegation[1].keyType

\* A getDelegationChain that asks the signer whatever storage holds.
needsNewChainAlways(json) == TRUE

\* getDelegationChain: whether the stored value is replaced by a new chain.
needsNewChain(json) ==
    \/ json = None
    \/ ~isDelegationValid(fromJSON(json[1]), configuredTargets)

\* The transport method a task forwards to on the delegated path.
transportMethod(r) ==
    CASE r.op = "call" -> "agent.call"
      [] r.op = "query" /\ r.inCall -> "agent.call"
      [] r.op = "query" -> "agent.query"
      [] r.op = "readState" -> "agent.readState"
      [] OTHER -> "agent.createReadStateRequest"

\* "Make call through signer": signer.callCanister is invoked.
callThroughSigner(r) == [r EXCEPT !.pc = "signer"]

\* The caller's code after "await this.getDelegationIdentity(...)".
afterDelegationIdentity(r0, delegationIdentity) ==
    LET r == [r0 EXCEPT !.delegationIdentity = delegationIdentity] IN
    CASE r.op = "getDelegationIdentity" -> Done(r)
      [] r.op = "call" \/ (r.op = "query" /\ r.inCall) ->
            IF delegationIdentity # None
            THEN [r EXCEPT !.pc = "transport"]
            ELSE callThroughSigner(r)
      [] r.op = "query" ->
            IF delegationIdentity # None
            THEN [r EXCEPT !.pc = "transport"]
            ELSE [r EXCEPT !.pc = "principal", !.inCall = TRUE]
      [] OTHER -> [r EXCEPT !.pc = "transport"]

\* getDelegationChain up to its first await: storage.get is invoked.
getDelegationChain(r) == [r EXCEPT !.pc = "chain_get"]

\* A getDelegationBaseIdentity that goes to storage whatever is configured.
getDelegationBaseIdentityFromStorage(r) == [r EXCEPT !.pc = "identity_get"]

\* getDelegationBaseIdentity up to its first await.
getDelegationBaseIdentity(r) ==
    IF configuredIdentity # None
    THEN getDelegationChain([r EXCEPT !.baseIdentity = configuredIdentity])
    ELSE [r EXCEPT !.pc = "identity_get"]

\* A getDelegationIdentity that does not return early without delegation.
getDelegationIdentityUnguarded(r) == getDelegationBaseIdentity(r)

\* getDelegationIdentity up to its first await.
getDelegationIdentity(r) ==
    IF options.delegation = None
    THEN afterDelegationIdentity(r, None)
    ELSE getDelegationBaseIdentity(r)

\* call and query after "await this.options.getPrincipal()".
route(r) ==
    IF delegatedWhenPossible(r.canisterId)
    THEN getDelegationIdentity(r)
    ELSE IF r.op = "query" /\ ~r.inCall
         THEN [r EXCEPT !.pc = "principal", !.inCall = TRUE]
         ELSE callThroughSigner(r)

\* An extraction that takes the second segment of any path long enough.
requestIdFromLongerPath(paths) ==
    IF Len(paths) = 1 /\ Len(paths[1]) >= 2 /\ decode(paths[1][1]) = "request_status"
    THEN Some(paths[1][2])
    ELSE None

\* requestIdFromReadStateOptions
requestIdFromReadStateOptions(paths) ==
    IF Len(paths) = 1 /\ Len(paths[1]) = 2 /\ decode(paths[1][1]) = "request_status"
    THEN Some(paths[1][2])
    ELSE None

\* The read-state options the application passes: the well-formed lookup of
\* each request identifier, and the malformed shapes.
AnyId == CHOOSE id \in RequestIds : TRUE
ReadStatePaths ==
    {<< <<encode("request_status"), id>> >> : id \in RequestIds}
    \cup {<<>>,
          << <<encode("request_status")>> >>,
          << <<encode("request_status"), AnyId, encode("status")>> >>,
          << <<encode("time"), AnyId>> >>,
          << <<encode("request_status"), AnyId>>, <<encode("request_status"), AnyId>> >>}

----------------------------------------------------------------------------
(* The public operations, up to their first await.                         *)

\* The application issues at most MaxOps operations.  A task that has returned
\* or thrown keeps its outcome until it carries the next invocation; an
\* operation runs in the first task, and in the second only while the first
\* is busy.
Settled(pc) == pc \in {"idle", "done", "failed"}
Idle(t) ==
    /\ Settled(tasks[t].pc)
    /\ started < MaxOps
    /\ t = "t1" \/ ~Settled(tasks["t1"].pc)
Set(t, r) == tasks' = [tasks EXCEPT ![t] = r]

\* call(canisterId, {methodName, arg}): getPrincipal is invoked.
StartCall(t) ==
    /\ Idle(t)
    /\ \E c \in Canisters, m \in RequestMethods, a \in RequestArgs :
          Set(t, [IdleTask EXCEPT !.op = "call", !.pc = "principal",
                                  !.canisterId = c, !.methodName = m, !.arg = a])
    /\ started' = started + 1
    /\ UNCHANGED <<channelVars, options, readStateResponses, delegatedRequestIds, storage, now, generated>>

\* query(canisterId, {methodName, arg}): getPrincipal is invoked.
StartQuery(t) ==
    /\ Idle(t)
    /\ \E c \in Canisters, m \in RequestMethods, a \in RequestArgs :
          Set(t, [IdleTask EXCEPT !.op = "query", !.pc = "principal",
                                  !.canisterId = c, !.methodName = m, !.arg = a])
    /\ started' = started + 1
    /\ UNCHANGED <<channelVars, options, readStateResponses, delegatedRequestIds, storage, now, generated>>

\* getDelegationIdentity(principal), called by the application.
StartGetDelegationIdentity(t) ==
    /\ Idle(t)
    /\ \E p \in Accounts :
          Set(t, getDelegationIdentity(
                    [IdleTask EXCEPT !.op = "getDelegationIdentity", !.sender = Some(p)]))
    /\ started' = started + 1
    /\ UNCHANGED <<channelVars, options, readStateResponses, delegatedRequestIds, storage, now, generated>>

\* A createReadStateRequest that consumes the marker as readState does.
markersConsumed(requestKey) == delegatedRequestIds \ {requestKey}

\* createReadStateRequest: this.delegatedRequestIds.has(requestKey) only
\* tests the marker.
markersAfterCreateReadStateRequest(requestKey) == delegatedRequestIds

\* createReadStateRequest(options)
StartCreateReadStateRequest(t) ==
    /\ Idle(t)
    /\ \E paths \in ReadStatePaths :
        LET r == [IdleTask EXCEPT !.op = "createReadStateRequest", !.paths = paths]
            requestId == requestIdFromReadStateOptions(paths)
        IN  IF requestId = None
            THEN /\ Set(t, Fail(r, InvalidReadState))
                 /\ UNCHANGED delegatedRequestIds
            ELSE IF toBase64(requestId[1]) \in delegatedRequestIds
                 THEN /\ Set(t, [r EXCEPT !.pc = "principal", !.requestId = requestId])
                      /\ delegatedRequestIds' =
                            markersAfterCreateReadStateRequest(toBase64(requestId[1]))
                 ELSE /\ Set(t, Done([r EXCEPT !.requestId = requestId]))
                      /\ UNCHANGED delegatedRequestIds
    /\ started' = started + 1
    /\ UNCHANGED <<channelVars, options, readStateResponses, storage, now, generated>>

\* A readState that leaves the marker in place.
markersKept(requestKey) == delegatedRequestIds

\* readState: this.delegatedRequestIds.delete(requestKey)
markersAfterReadState(requestKey) == delegatedRequestIds \ {requestKey}

\* A readState that leaves the record in the cache.
responsesKept(requestKey) == readStateResponses

\* readState: this.readStateResponses.delete(requestKey)
responsesAfterReadState(requestKey) == MapDelete(readStateResponses, requestKey)

\* readState(canisterId, options)
StartReadState(t) ==
    /\ Idle(t)
    /\ \E c \in ReadStateCanisters, paths \in ReadStatePaths :
        LET r == [IdleTask EXCEPT !.op = "readState", !.canisterId = c, !.paths = paths]
            requestId == requestIdFromReadStateOptions(paths)
        IN  IF requestId = None
            THEN /\ Set(t, Fail(r, InvalidReadState))
                 /\ UNCHANGED <<readStateResponses, delegatedRequestIds>>
            ELSE LET requestKey == toBase64(requestId[1])
                     readStateResponse == MapGet(readStateResponses, requestKey)
                 IN  IF requestKey \in delegatedRequestIds
                     THEN /\ delegatedRequestIds' = markersAfterReadState(requestKey)
                          /\ Set(t, [r EXCEPT !.pc = "principal", !.requestId = requestId])
                          /\ UNCHANGED readStateResponses
                     ELSE IF readStateResponse = None
                     THEN /\ Set(t, Fail([r EXCEPT !.requestId = requestId], ResponseNotFound))
                          /\ UNCHANGED <<readStateResponses, delegatedRequestIds>>
                     ELSE /\ readStateResponses' = responsesAfterReadState(requestKey)
                          /\ Set(t, Done([r EXCEPT !.requestId = requestId,
                                                   !.response = readStateResponse]))
                          /\ UNCHANGED delegatedRequestIds
    /\ started' = started + 1
    /\ UNCHANGED <<channelVars, options, storage, now, generated>>

----------------------------------------------------------------------------
(* The continuations: what runs when an awaited promise settles.           *)

\* "await this.options.getPrincipal()" / "await this.getPrincipal()" resolves.
ResolvePrincipal(t) ==
    /\ tasks[t].pc = "principal"
    /\ \E sender \in CallerAccounts :
        LET r == [tasks[t] EXCEPT !.sender = Some(sender)] IN
        IF r.op \in {"call", "query"}
        THEN Set(t, route(r))
        ELSE Set(t, getDelegationIdentity(r))
    /\ UNCHANGED <<channelVars, options, readStateResponses, delegatedRequestIds, storage, now,
                   generated, started>>

\* getDelegationBaseIdentity: storage.get("delegation-identity-...") resolves.
IdentityGet(t) ==
    /\ tasks[t].pc = "identity_get"
    /\ LET r == tasks[t]
           value == MapGet(storage, identityKey(r.sender[1]))
       IN  IF value = None
           THEN Set(t, [r EXCEPT !.pc = "identity_create"])
           ELSE Set(t, getDelegationChain(
                    [r EXCEPT !.baseIdentity =
                        Some(IF typeof(value[1]) = "string"
                             THEN fromJSON(value[1]) ELSE fromKeyPair(value[1]))]))
    /\ UNCHANGED <<channelVars, options, readStateResponses, delegatedRequestIds, storage, now,
                   generated, started>>

\* createDelegationBaseIdentity
createDelegationBaseIdentity ==
    [kind |-> IF configuredKeyType = "Ed25519" THEN "Ed25519" ELSE "ECDSA",
     key |-> generated + 1]

\* The value setDelegationBaseIdentity stores for an identity.
storedIdentity(identity) ==
    IF identity.kind = "Ed25519" THEN stringify(identity) ELSE keyPairOf(identity)

\* getDelegationBaseIdentity on a miss: the new identity is generated and
\* storage.set("delegation-identity-...") resolves; the identity is returned.
\* (Generating the key touches nothing another task reads, so the two awaits
\* are one step.)
IdentitySet(t) ==
    /\ tasks[t].pc = "identity_create"
    /\ LET r == tasks[t]
           identity == createDelegationBaseIdentity
       IN  /\ storage' = MapSet(storage, identityKey(r.sender[1]), storedIdentity(identity))
           /\ Set(t, getDelegationChain([r EXCEPT !.baseIdentity = Some(identity)]))
    /\ generated' = generated + 1
    /\ UNCHANGED <<channelVars, options, readStateResponses, delegatedRequestIds, now, started>>

\* getDelegationChain: storage.get("delegation-chain-...") resolves.
ChainGet(t) ==
    /\ tasks[t].pc = "chain_get"
    /\ LET r == tasks[t]
           json == MapGet(storage, chainLookupKey(r.sender[1], toDer(r.baseIdentity[1])))
       IN  IF json # None /\ typeof(json[1]) # "string"
           THEN Set(t, Fail(r, InvalidChainInStorage))
           ELSE IF needsNewChain(json)
           THEN Set(t, [r EXCEPT !.pc = "chain_request"])
           ELSE LET chain == fromJSON(json[1]) IN
                Set(t, afterDelegationIdentity(
                          [r EXCEPT !.json = json, !.delegationChain = Some(chain)],
                          Some(fromDelegation(r.baseIdentity[1], chain))))
    /\ UNCHANGED <<channelVars, options, readStateResponses, delegatedRequestIds, storage, now,
                   generated, started>>

\* getDelegationChain on a miss: signer.getDelegation resolves with a new chain
\* and setDelegationChain's storage.set resolves; the new chain is returned.
\* (The signer's answer touches nothing another task reads, so the two awaits
\* are one step.)
ChainSet(t) ==
    /\ tasks[t].pc = "chain_request"
    /\ LET r == tasks[t] IN
       \E newDelegationChain \in ChainsFor(r.sender[1], toDer(r.baseIdentity[1])) :
           /\ storage' = MapSet(storage, chainStoreKey(newDelegationChain),
                                stringify(newDelegationChain))
           /\ Set(t, afterDelegationIdentity(
                        [r EXCEPT !.delegationChain = Some(newDelegationChain)],
                        Some(fromDelegation(r.baseIdentity[1], newDelegationChain))))
    /\ UNCHANGED <<channelVars, options, readStateResponses, delegatedRequestIds, now, generated, started>>

\* The identifier the transport computes for the call it submits as identity.
submittedRequestId(r, nonce) ==
    requestIdOf([request_type |-> "call", canister_id |-> r.canisterId,
                 method_name |-> r.methodName, arg |-> r.arg,
                 sender |-> principalOf(r.delegationIdentity[1]), nonce |-> nonce])

\* A marker that names the target canister instead of the request.
markerOfTarget(submitResponse) == toBase64(<<submitResponse[2]>>)

\* call after "await this.agent.call(...)": the marker that is recorded.
markerOf(submitResponse) == toBase64(submitResponse)

\* A call whose delegated branch does not return and goes on to the signer.
returnFromCallFallingThrough(r, requestId) ==
    IF r.pc = "transport"
    THEN callThroughSigner([r EXCEPT !.requestId = Some(requestId)])
    ELSE IF r.op = "query"
    THEN [r EXCEPT !.pc = "query_resume", !.requestId = Some(requestId)]
    ELSE Done([r EXCEPT !.requestId = Some(requestId)])

\* Where call returns to: its caller, or query's "await this.call(...)".
returnFromCall(r, requestId) ==
    IF r.op = "query"
    THEN [r EXCEPT !.pc = "query_resume", !.requestId = Some(requestId)]
    ELSE Done([r EXCEPT !.requestId = Some(requestId)])

\* this.agent.call / query / readState / createReadStateRequest resolves.
TransportResolve(t) ==
    /\ tasks[t].pc = "transport"
    /\ LET r == tasks[t] IN
       CASE transportMethod(r) = "agent.call" ->
               \E nonce \in Nonces :
                  /\ delegatedRequestIds' =
                        delegatedRequestIds \cup {markerOf(submittedRequestId(r, nonce))}
                  /\ Set(t, returnFromCall(r, submittedRequestId(r, nonce)))
         [] transportMethod(r) = "agent.query" ->
               /\ \E arg \in {None} \cup {Some(x) : x \in Replies} :
                     Set(t, Done([r EXCEPT !.reply = Some(arg)]))
               /\ UNCHANGED delegatedRequestIds
         [] transportMethod(r) = "agent.readState" ->
               /\ \E certificate \in CertificatesOf(r.requestId[1]) :
                     Set(t, Done([r EXCEPT !.response = Some([certificate |-> certificate])]))
               /\ UNCHANGED delegatedRequestIds
         [] OTHER ->
               /\ Set(t, Done([r EXCEPT !.request = Some("read_state")]))
               /\ UNCHANGED delegatedRequestIds
    /\ UNCHANGED <<channelVars, options, readStateResponses, storage, now, generated, started>>

\* The content maps a signer answers the call of r with: the call as asked
\* for, with a nonce of the signer's choice, or with one field changed.
ContentMapsFor(r) ==
    LET asked == [request_type |-> "call", canister_id |-> r.canisterId,
                  method_name |-> r.methodName, arg |-> r.arg,
                  sender |-> r.sender[1], nonce |-> 0]
    IN  {c \in ContentMaps :
            Cardinality({f \in {"request_type", "canister_id", "method_name",
                                "arg", "sender"} : c[f] # asked[f]}) <= 1}

\* A validation that leaves the method name unchecked.
invalidContentMapIgnoringMethod(r, requestBody) ==
    \/ "call" # requestBody.request_type
    \/ CompareTo(r.canisterId, requestBody.canister_id) # "eq"
    \/ compare(r.arg, requestBody.arg) # 0
    \/ CompareTo(r.sender[1], requestBody.sender) # "eq"

\* The validation of the decoded content map in call.
invalidContentMap(r, requestBody) ==
    \/ "call" # requestBody.request_type
    \/ CompareTo(r.canisterId, requestBody.canister_id) # "eq"
    \/ r.methodName # requestBody.method_name
    \/ compare(r.arg, requestBody.arg) # 0
    \/ CompareTo(r.sender[1], requestBody.sender) # "eq"

\* A key that names the target canister instead of the request.
responseKeyOfTarget(requestBody) == toBase64(<<requestBody.canister_id>>)

\* The key call stores the signer's certificate under.
responseKey(requestBody) == toBase64(requestIdOf(requestBody))

\* signer.callCanister resolves with {contentMap, certificate}.
SignerResolve(t) ==
    /\ tasks[t].pc = "signer"
    /\ \E contentMap \in ContentMapsFor(tasks[t]) :
       \E certificate \in CertificatesOf(requestIdOf(contentMap)) :
        LET r == [tasks[t] EXCEPT !.requestBody = Some(contentMap),
                                  !.certificate = Some(certificate)]
        IN  IF invalidContentMap(r, contentMap)
            THEN /\ Set(t, Fail(r, InvalidContentMap))
                 /\ UNCHANGED readStateResponses
            ELSE /\ readStateResponses' =
                       MapSet(readStateResponses, responseKey(contentMap),
                              [certificate |-> certificate])
                 /\ Set(t, returnFromCall(r, requestIdOf(contentMap)))
    /\ UNCHANGED <<channelVars, options, delegatedRequestIds, storage, now, generated, started>>

\* A status test that only asks for a status to be present.
isPresent(status) == status # None

\* The status query requires of the certificate.
isReplied(status) == status = Some("replied")

\* query after "await Certificate.create(...)" has resolved.
afterCertificate(r, certificate) ==
    LET path == <<encode("request_status"), r.requestId[1]>>
        status == lookup(certificate, Append(path, encode("status")))
    IN  IF ~isReplied(status)
        THEN Fail(r, MissingReply)
        ELSE Done([r EXCEPT !.reply =
                Some(lookup(certificate, Append(path, encode("reply"))))])

\* A query that leaves the record it used in the cache.
responsesKeptByQuery(requestKey) == readStateResponses

\* query: this.readStateResponses.delete(requestKey)
responsesAfterQuery(requestKey) == MapDelete(readStateResponses, requestKey)

\* query after "await this.call(canisterId, options)": the record is looked up
\* and evicted, the certificate verified and read.  (Verifying the certificate
\* touches nothing another task reads, so the two awaits are one step;
\* Certificate.create rejects a certificate it cannot verify.)
QueryResume(t) ==
    /\ tasks[t].pc = "query_resume"
    /\ LET r == tasks[t]
           requestKey == toBase64(r.requestId[1])
           readStateResponse == MapGet(readStateResponses, requestKey)
       IN  IF readStateResponse = None
           THEN /\ Set(t, Fail(r, ResponseNotFoundInQuery))
                /\ UNCHANGED readStateResponses
           ELSE /\ readStateResponses' = responsesAfterQuery(requestKey)
                /\ \/ Set(t, afterCertificate([r EXCEPT !.response = readStateResponse],
                                              readStateResponse[1].certificate))
                   \/ Set(t, Fail([r EXCEPT !.response = readStateResponse],
                                  CollaboratorError))
    /\ UNCHANGED <<channelVars, options, delegatedRequestIds, storage, now, generated, started>>

\* A collaborator (getPrincipal, storage, signer, transport, key generation)
\* rejects the promise the task awaits: the operation throws.
AwaitsCollaborator(pc) ==
    pc \in {"principal", "identity_get", "identity_create", "chain_get",
            "chain_request", "transport", "signer"}

Reject(t) ==
    /\ AwaitsCollaborator(tasks[t].pc)
    /\ Set(t, Fail(tasks[t], CollaboratorError))
    /\ UNCHANGED <<channelVars, options, readStateResponses, delegatedRequestIds, storage, now,
                   generated, started>>

\* Time passes.  The agent reads the clock only to compare it with the
\* expirations of a stored chain.
Tick ==
    /\ now < MaxTime
    /\ \E key \in DOMAIN storage : key[1] = "delegation-chain"
    /\ now' = now + 1
    /\ UNCHANGED <<channelVars, options, readStateResponses, delegatedRequestIds, storage, tasks,
                   generated, started>>

Next ==
    \/ \E t \in Tasks : StartCall(t)
    \/ \E t \in Tasks : StartQuery(t)
    \/ \E t \in Tasks : StartReadState(t)
    \/ \E t \in Tasks : StartCreateReadStateRequest(t)
    \/ \E t \in Tasks : StartGetDelegationIdentity(t)
    \/ \E t \in Tasks : ResolvePrincipal(t)
    \/ \E t \in Tasks : IdentityGet(t)
    \/ \E t \in Tasks : IdentitySet(t)
    \/ \E t \in Tasks : ChainGet(t)
    \/ \E t \in Tasks : ChainSet(t)
    \/ \E t \in Tasks : TransportResolve(t)
    \/ \E t \in Tasks : SignerResolve(t)
    \/ \E t \in Tasks : QueryResume(t)
    \/ \E t \in Tasks : Reject(t)
    \/ Tick

Spec == Init /\ [][Next]_vars

----------------------------------------------------------------------------
(* PostMessageChannel: a channel to the signer's window.                   *)

\* this.options of the channel, and what else a message event can carry.
ChannelOptions == [window |-> "signerWindow", origin |-> "https://signer.example"]
Windows == {ChannelOptions.window, "otherWindow"}
Origins == {ChannelOptions.origin, "https://other.example"}

\* The data of a message event: a JSON-RPC response with a result or with an
\* error, a JSON-RPC request, an object of another protocol version, and a
\* value that is no JSON-RPC object.
MessageData ==
    {[jsonrpc |-> "2.0", id |-> "1", result |-> "ok"],
     [jsonrpc |-> "2.0", id |-> "1", error |-> "denied"],
     [jsonrpc |-> "2.0", id |-> "1", method |-> "icrc49_call_canister"],
     [jsonrpc |-> "1.0", id |-> "1", result |-> "ok"],
     [text |-> "ready"]}
MessageEvents == [source : Windows, origin : Origins, data : MessageData]

\* The requests the application sends, and the listeners it registers.
JsonRequests == {[jsonrpc |-> "2.0", id |-> "1", method |-> "icrc49_call_canister"]}
Listeners == {"onResponse", "onOther"}

ChannelClosed == "Communication channel is closed"

\* isJsonRpcResponse(event.data)
isJsonRpcResponse(data) ==
    /\ "jsonrpc" \in DOMAIN data /\ data.jsonrpc = "2.0"
    /\ "id" \in DOMAIN data
    /\ "result" \in DOMAIN data \/ "error" \in DOMAIN data

\* A filter that does not look at the origin of the event.
acceptsAnyOrigin(event) ==
    ~(\/ event.source # ChannelOptions.window
      \/ ~isJsonRpcResponse(event.data))

\* messageListener: whether the event gets past the early return.
accepts(event) ==
    ~(\/ event.source # ChannelOptions.window
      \/ event.origin # ChannelOptions.origin
      \/ ~isJsonRpcResponse(event.data))

\* The channel's operations are bounded together.
ChannelBusy == registered + Len(messageEvents) + Len(sendResults) >= MaxChannelOps

\* registerListener(listener): window.addEventListener("message", messageListener)
registerListener(listener) ==
    /\ ~ChannelBusy
    /\ registered' = registered + 1
    /\ messageListeners' =
          messageListeners \cup {[id |-> registered + 1, listener |-> listener]}
    /\ UNCHANGED <<agentVars, windowClosed, windowMessages, messageEvents,
                   listenerCalls, sendResults, removedListeners, closeCalled>>

\* The function registerListener returned:
\* window.removeEventListener("message", messageListener)
listenersAfterRemove(id) == {l \in messageListeners : l.id # id}

removeListener(id) ==
    /\ id \in 1 .. registered
    /\ messageListeners' = listenersAfterRemove(id)
    /\ removedListeners' = removedListeners \cup {id}
    /\ UNCHANGED <<agentVars, windowClosed, windowMessages, registered,
                   messageEvents, listenerCalls, sendResults, closeCalled>>

\* The calls the attached message listeners make for one event, in the order
\* of registration: listener(event.data) for an event that is accepted.
RECURSIVE callsOf(_, _)
callsOf(event, id) ==
    IF id > registered THEN <<>>
    ELSE LET attached == {l \in messageListeners : l.id = id} IN
         (IF attached # {} /\ accepts(event)
          THEN <<[id |-> id, listener |-> (CHOOSE l \in attached : TRUE).listener,
                  data |-> event.data]>>
          ELSE <<>>)
         \o callsOf(event, id + 1)

\* A "message" event is dispatched on the global window.
DispatchMessage(event) ==
    /\ ~ChannelBusy
    /\ messageEvents' = Append(messageEvents, event)
    /\ listenerCalls' = listenerCalls \o callsOf(event, 1)
    /\ UNCHANGED <<agentVars, windowClosed, windowMessages, messageListeners,
                   registered, sendResults, removedListeners, closeCalled>>

\* A send that posts without looking at the window.
postsWhenClosed(closed) == TRUE

\* send: whether the request is posted.
posts(closed) == ~closed

\* send(request)
send(request) ==
    /\ ~ChannelBusy
    /\ IF posts(windowClosed)
       THEN /\ windowMessages' =
                  Append(windowMessages,
                         [message |-> request, targetOrigin |-> ChannelOptions.origin])
            /\ sendResults' = Append(sendResults, "resolved")
       ELSE /\ sendResults' = Append(sendResults, ChannelClosed)
            /\ UNCHANGED windowMessages
    /\ UNCHANGED <<agentVars, windowClosed, messageListeners, registered,
                   messageEvents, listenerCalls, removedListeners, closeCalled>>

\* close(): this.options.window.close().  The window is one the transport
\* opened, which a script may close.
close ==
    /\ windowClosed' = TRUE
    /\ closeCalled' = TRUE
    /\ UNCHANGED <<agentVars, windowMessages, messageListeners, registered,
                   messageEvents, listenerCalls, sendResults, removedListeners>>

\* The user closes the signer's window.
WindowClosedByUser ==
    /\ ~windowClosed
    /\ windowClosed' = TRUE
    /\ UNCHANGED <<agentVars, windowMessages, messageListeners, registered,
                   messageEvents, listenerCalls, sendResults, removedListeners,
                   closeCalled>>

ChannelInit == Init /\ options.delegation = None

ChannelNext ==
    \/ \E listener \in Listeners : registerListener(listener)
    \/ \E id \in 1 .. MaxChannelOps : removeListener(id)
    \/ \E event \in MessageEvents : DispatchMessage(event)
    \/ \E request \in JsonRequests : send(request)
    \/ close
    \/ WindowClosedByUser

ChannelSpec == ChannelInit /\ [][ChannelNext]_vars

----------------------------------------------------------------------------
(* Properties.                                                             *)

\* The step in which task t takes up an invocation of op.
Begins(t, op) == Idle(t) /\ started' = started + 1 /\ tasks'[t].op = op

\* The well-formed read-state paths of a request identifier.
StatusPaths(id) == << <<encode("request_status"), id>> >>

\* The targets configured, as a set.
TargetSet == {configuredTargets[1][i] : i \in 1 .. Len(configuredTargets[1])}

\* A task is on the delegated path: it derives a delegated identity or drives
\* the transport.
OnDelegatedPath(pc) ==
    pc \in {"identity_get", "identity_create", "chain_get", "chain_request", "transport"}

\* C1: in every reachable state, no request identifier is both a key of the
\* certified-response cache and a member of the delegated-request marker set.
C1_MutuallyExclusive ==
    DOMAIN readStateResponses \cap delegatedRequestIds = {}

\* A delegated call has returned and its identifier is a marker.
C1_Witness ==
    \E t \in Tasks :
        /\ tasks[t].op = "call" /\ tasks[t].pc = "done"
        /\ toBase64(tasks[t].requestId[1]) \in delegatedRequestIds

\* C2: a call or query whose target is not among the configured targets never
\* attempts the delegated path: it derives no delegated identity and never
\* invokes the transport.
C2_OutOfScopeUsesSigner ==
    \A t \in Tasks :
        (/\ tasks[t].op \in {"call", "query"}
         /\ configuredTargets # None
         /\ tasks[t].canisterId \in Canisters \ TargetSet)
        => ~OnDelegatedPath(tasks[t].pc)

\* C3: without the delegation option no task derives an identity, reads or
\* writes storage, asks the signer for a delegation or invokes the transport;
\* no marker exists; every call and query that returns has gone through the
\* signer; getDelegationIdentity returns nothing.
C3_NoDelegationOption ==
    options.delegation = None =>
        /\ delegatedRequestIds = {}
        /\ storage = <<>>
        /\ \A t \in Tasks :
            /\ ~OnDelegatedPath(tasks[t].pc)
            /\ tasks[t].delegationIdentity = None
            /\ (tasks[t].op \in {"call", "query"} /\ tasks[t].pc = "done")
                  => tasks[t].requestBody # None

\* Without the delegation option a call has returned through the signer and
\* getDelegationIdentity has returned nothing.
C3_Witness ==
    /\ options.delegation = None
    /\ \E t \in Tasks : /\ tasks[t].op = "call" /\ tasks[t].pc = "done"
                        /\ tasks[t].requestBody # None
    /\ \E t \in Tasks : /\ tasks[t].op = "getDelegationIdentity" /\ tasks[t].pc = "done"
                        /\ tasks[t].delegationIdentity = None

\* The content map differs from what task record r asked the signer for.
Mismatch(r, body) ==
    \/ body.request_type # "call"
    \/ body.canister_id # r.canisterId
    \/ body.method_name # r.methodName
    \/ body.arg # r.arg
    \/ body.sender # r.sender[1]

\* C4: when the signer's answer to a call differs from the request in request
\* type, target, method name, argument or sender, the call throws the
\* protocol-violation error, no identifier is computed, and the cache and the
\* marker set are as they were.
C4_MismatchRejected ==
    [][\A t \in Tasks :
        (/\ tasks[t].pc = "signer"
         /\ tasks'[t].requestBody # None
         /\ Mismatch(tasks[t], tasks'[t].requestBody[1]))
        => /\ tasks'[t].pc = "failed"
           /\ tasks'[t].error = InvalidContentMap
           /\ tasks'[t].requestId = None
           /\ readStateResponses' = readStateResponses
           /\ delegatedRequestIds' = delegatedRequestIds]_vars

\* A call has thrown the protocol-violation error on a wrong method name.
C4_Witness ==
    \E t \in Tasks :
        /\ tasks[t].pc = "failed" /\ tasks[t].error = InvalidContentMap
        /\ tasks[t].requestBody # None
        /\ tasks[t].requestBody[1].method_name = "approve"

\* C5: when a call through the signer returns, the identifier it returns is
\* the identifier of the content map the signer sent, the signer's
\* certificate is the cache's record under that identifier, and no other
\* record of the cache has changed.
C5_ReturnsCanonicalId ==
    [][\A t \in Tasks :
        (tasks[t].pc = "signer" /\ tasks'[t].pc \in {"done", "query_resume"})
        => LET body == tasks'[t].requestBody[1]
               key == toBase64(requestIdOf(body))
           IN  /\ tasks'[t].requestId = Some(requestIdOf(body))
               /\ key \in DOMAIN readStateResponses'
               /\ readStateResponses'[key] = [certificate |-> tasks'[t].certificate[1]]
               /\ DOMAIN readStateResponses' = DOMAIN readStateResponses \cup {key}
               /\ \A k \in DOMAIN readStateResponses \ {key} :
                     readStateResponses'[k] = readStateResponses[k]]_vars

\* A call through the signer has returned and its record is cached.
C5_Witness ==
    \E t \in Tasks :
        /\ tasks[t].op = "call" /\ tasks[t].pc = "done"
        /\ tasks[t].requestBody # None
        /\ toBase64(tasks[t].requestId[1]) \in DOMAIN readStateResponses


\* A readState for an identifier that is neither a marker nor a key of the
\* cache throws the missing-correlation error and changes neither.
AbsentReadStateFails ==
    \A t \in Tasks, id \in RequestIds :
        (/\ Begins(t, "readState")
         /\ tasks'[t].paths = StatusPaths(id)
         /\ toBase64(id) \notin delegatedRequestIds
         /\ toBase64(id) \notin DOMAIN readStateResponses)
        => /\ tasks'[t].pc = "failed"
           /\ tasks'[t].error = ResponseNotFound
           /\ tasks'[t].response = None
           /\ readStateResponses' = readStateResponses
           /\ delegatedRequestIds' = delegatedRequestIds

\* A key enters the cache only in the step in which a call through the signer
\* returns the identifier of that key.
OnlySignerCallPopulates ==
    \A key \in DOMAIN readStateResponses' \ DOMAIN readStateResponses :
        \E t \in Tasks :
            /\ tasks[t].pc = "signer"
            /\ tasks'[t].requestId # None
            /\ toBase64(tasks'[t].requestId[1]) = key

\* A marker enters the marker set only in the step in which the transport
\* returns the identifier of that marker to a delegated call.
OnlyDelegatedCallMarks ==
    \A key \in delegatedRequestIds' \ delegatedRequestIds :
        \E t \in Tasks :
            /\ tasks[t].pc = "transport"
            /\ tasks'[t].requestId # None
            /\ toBase64(tasks'[t].requestId[1]) = key

\* C6: a readState for an identifier that is no marker returns the cached
\* record and evicts it; the key stays out of the cache until a call through
\* the signer returns it again, and a readState for an identifier with no
\* record (evicted or never recorded) throws the missing-correlation error.
C6_RecordSingleUse ==
    [][/\ \A t \in Tasks, id \in RequestIds :
            (/\ Begins(t, "readState")
             /\ tasks'[t].paths = StatusPaths(id)
             /\ toBase64(id) \notin delegatedRequestIds
             /\ toBase64(id) \in DOMAIN readStateResponses)
            => /\ tasks'[t].pc = "done"
               /\ tasks'[t].response = Some(readStateResponses[toBase64(id)])
               /\ toBase64(id) \notin DOMAIN readStateResponses'
               /\ \A k \in DOMAIN readStateResponses \ {toBase64(id)} :
                     /\ k \in DOMAIN readStateResponses'
                     /\ readStateResponses'[k] = readStateResponses[k]
       /\ AbsentReadStateFails
       /\ OnlySignerCallPopulates]_vars

\* A readState has returned a cached record, which is no longer in the cache.
C6_Witness ==
    \E t \in Tasks :
        /\ options.delegation = None
        /\ tasks[t].op = "readState" /\ tasks[t].pc = "done"
        /\ tasks[t].response # None
        /\ toBase64(tasks[t].requestId[1]) \notin DOMAIN readStateResponses

\* C7: a readState for a marked identifier removes the marker, leaves the
\* cache alone and goes on to the transport, which it reaches only with a
\* delegated identity and from which alone it returns; the marker comes back
\* only when a delegated call returns that identifier again, and until then a
\* readState for it throws the missing-correlation error.
C7_MarkedReadState ==
    [][/\ \A t \in Tasks, id \in RequestIds :
            (/\ Begins(t, "readState")
             /\ tasks'[t].paths = StatusPaths(id)
             /\ toBase64(id) \in delegatedRequestIds)
            => /\ delegatedRequestIds' = delegatedRequestIds \ {toBase64(id)}
               /\ toBase64(id) \notin DOMAIN readStateResponses'
               /\ readStateResponses' = readStateResponses
               /\ tasks'[t].pc = "principal"
               /\ tasks'[t].response = None
       /\ \A t \in Tasks :
            (tasks'[t].op = "readState" /\ tasks'[t].pc = "transport")
            => tasks'[t].delegationIdentity # None
       /\ \A t \in Tasks :
            (/\ tasks[t].op = "readState" /\ ~Settled(tasks[t].pc)
             /\ tasks'[t].pc = "done")
            => tasks[t].pc = "transport" /\ tasks'[t].response # None
       /\ AbsentReadStateFails
       /\ OnlyDelegatedCallMarks]_vars

\* A readState for a marked identifier is at the transport with a delegated
\* identity, and the marker is gone.
C7_Witness ==
    \E t \in Tasks :
        /\ tasks[t].op = "readState" /\ tasks[t].pc = "transport"
        /\ tasks[t].delegationIdentity # None
        /\ toBase64(tasks[t].requestId[1]) \notin delegatedRequestIds

\* C8: a query that returns after its call through the signer returns the
\* reply of the certificate recorded under the call's identifier, and the
\* record is evicted in that step; the key stays out of the cache until a call
\* through the signer returns it again, and until then a readState for it
\* throws the missing-correlation error.
C8_QueryConsumesRecord ==
    [][/\ \A t \in Tasks :
            (tasks[t].pc = "query_resume" /\ tasks'[t].pc = "done")
            => LET id == tasks[t].requestId[1] IN
               /\ toBase64(id) \in DOMAIN readStateResponses
               /\ readStateResponses[toBase64(id)].certificate.about = id
               /\ tasks'[t].reply =
                     Some(readStateResponses[toBase64(id)].certificate.reply)
               /\ toBase64(id) \notin DOMAIN readStateResponses'
       /\ OnlySignerCallPopulates
       /\ AbsentReadStateFails]_vars

\* A query through the signer has returned the reply and its record is gone.
C8_Witness ==
    \E t \in Tasks :
        /\ tasks[t].op = "query" /\ tasks[t].pc = "done"
        /\ tasks[t].requestBody # None
        /\ tasks[t].reply = Some(Some("r1"))
        /\ toBase64(tasks[t].requestId[1]) \notin DOMAIN readStateResponses

\* C9: a query that resumes after its call through the signer and finds a
\* record whose certificate holds, for the call's identifier, a status other
\* than "replied" or no status, throws and returns no reply.
C9_NotRepliedFails ==
    [][\A t \in Tasks :
        (/\ tasks[t].pc = "query_resume"
         /\ tasks'[t].pc # "query_resume"
         /\ toBase64(tasks[t].requestId[1]) \in DOMAIN readStateResponses
         /\ LET certificate ==
                    readStateResponses[toBase64(tasks[t].requestId[1])].certificate
            IN  \/ certificate.about # tasks[t].requestId[1]
                \/ certificate.status # Some("replied"))
        => /\ tasks'[t].pc = "failed"
           /\ tasks'[t].error \in {MissingReply, CollaboratorError}
           /\ tasks'[t].reply = None]_vars

\* A query has thrown because its certificate held no reply.
C9_Witness ==
    \E t \in Tasks :
        /\ tasks[t].op = "query" /\ tasks[t].pc = "failed"
        /\ tasks[t].error = MissingReply

\* The chain is valid now for the configured targets.
ChainValid(chain) ==
    \A i \in 1 .. Len(chain.delegations) :
        /\ chain.delegations[i].expiration > now
        /\ (configuredTargets # None /\ chain.delegations[i].targets # None)
              => TargetSet \subseteq chain.delegations[i].targets[1]

\* C10: when storage.get resolves in getDelegationChain and storage holds,
\* under the key of the account and the public key, a chain valid for the
\* configured targets, that chain is the one returned; the signer's
\* getDelegation is not invoked and storage is not written.
C10_ValidChainReused ==
    [][\A t \in Tasks :
        (/\ tasks[t].pc = "chain_get"
         /\ tasks'[t].pc # "chain_get"
         /\ tasks'[t].error # CollaboratorError
         /\ chainLookupKey(tasks[t].sender[1], toDer(tasks[t].baseIdentity[1]))
               \in DOMAIN storage
         /\ ChainValid(fromJSON(storage[
               chainLookupKey(tasks[t].sender[1], toDer(tasks[t].baseIdentity[1]))])))
        => /\ tasks'[t].pc \in {"transport", "done"}
           /\ tasks'[t].delegationIdentity =
                 Some([inner |-> tasks[t].baseIdentity[1],
                       delegation |-> fromJSON(storage[
                          chainLookupKey(tasks[t].sender[1],
                                         toDer(tasks[t].baseIdentity[1]))])])
           /\ storage' = storage]_vars

\* A task drives the transport with the chain it read from storage.
C10_Witness ==
    \E t \in Tasks :
        /\ tasks[t].pc = "transport"
        /\ tasks[t].json # None
        /\ tasks[t].delegationChain = Some(fromJSON(tasks[t].json[1]))
        /\ ChainValid(tasks[t].delegationChain[1])

\* The key getDelegationChain looks the chain of task t up under.
LookupKeyOf(t) ==
    chainLookupKey(tasks[t].sender[1], toDer(tasks[t].baseIdentity[1]))

\* C11: when the signer's new chain arrives while storage holds, under the
\* lookup key (account, public key), a chain that is expired or out of scope,
\* the old entry is overwritten: after the step a lookup under the same key
\* finds the chain the invocation returns; and the invocation does not ask the
\* signer a second time.
C11_OldChainOverwritten ==
    [][\A t \in Tasks :
        (/\ tasks[t].pc = "chain_request"
         /\ tasks'[t].pc # "chain_request"
         /\ tasks'[t].error # CollaboratorError
         /\ LookupKeyOf(t) \in DOMAIN storage
         /\ ~ChainValid(fromJSON(storage[LookupKeyOf(t)])))
        => /\ tasks'[t].pc \in {"transport", "done"}
           /\ tasks'[t].delegationIdentity # None
           /\ LookupKeyOf(t) \in DOMAIN storage'
           /\ fromJSON(storage'[LookupKeyOf(t)]) =
                 tasks'[t].delegationIdentity[1].delegation]_vars

\* The accounts a base identity is stored for.
AccountsWithIdentity == {a \in Accounts : identityKey(a) \in DOMAIN storage}

\* C12: with no fixed identity override, one base identity is generated per
\* account that has one, it is the one stored under the account's key, and
\* every task that holds a base identity for an account holds the stored one.
C12_OneBaseIdentityPerAccount ==
    configuredIdentity = None =>
        /\ generated = Cardinality(AccountsWithIdentity)
        /\ \A t \in Tasks :
              tasks[t].baseIdentity # None =>
                 /\ identityKey(tasks[t].sender[1]) \in DOMAIN storage
                 /\ storage[identityKey(tasks[t].sender[1])] =
                       storedIdentity(tasks[t].baseIdentity[1])

\* Exactly one path is requested, it has exactly two segments, and the first
\* decodes to "request_status".
WellFormed(paths) ==
    /\ Len(paths) = 1
    /\ Len(paths[1]) = 2
    /\ paths[1][1] = encode("request_status")

\* C13: readState and createReadStateRequest take the second segment as the
\* request identifier exactly when the read-state options are well formed;
\* for every other shape they throw the invalid-read-state error and leave
\* the cache and the marker set unchanged.
C13_RequestIdFromPaths ==
    [][\A t \in Tasks, op \in {"readState", "createReadStateRequest"} :
        Begins(t, op) =>
           IF WellFormed(tasks'[t].paths)
           THEN /\ tasks'[t].error # InvalidReadState
                /\ tasks'[t].pc # "failed" =>
                      tasks'[t].requestId = Some(tasks'[t].paths[1][2])
           ELSE /\ tasks'[t].pc = "failed"
                /\ tasks'[t].error = InvalidReadState
                /\ tasks'[t].requestId = None
                /\ readStateResponses' = readStateResponses
                /\ delegatedRequestIds' = delegatedRequestIds]_vars

\* A read-state request of three segments has been refused while the cache
\* holds a record.
C13_Witness ==
    \E t \in Tasks :
        /\ tasks[t].op \in {"readState", "createReadStateRequest"}
        /\ tasks[t].pc = "failed" /\ tasks[t].error = InvalidReadState
        /\ Len(tasks[t].paths) = 1 /\ Len(tasks[t].paths[1]) = 3
        /\ DOMAIN readStateResponses # {}

\* C14: a query whose upgraded call has returned finds the record of the
\* returned identifier in the cache when it looks it up, and never throws
\* "Read state response could not be found".
C14_RecordPresentForQuery ==
    \A t \in Tasks :
        /\ tasks[t].pc = "query_resume" =>
              toBase64(tasks[t].requestId[1]) \in DOMAIN readStateResponses
        /\ ~(tasks[t].op = "query" /\ tasks[t].pc = "failed"
             /\ tasks[t].error = ResponseNotFoundInQuery)

\* The identifiers the transport can return for the call of task t, which it
\* submits as the delegated identity.
TransportIdsOf(t) ==
    {<<"call", tasks[t].canisterId, tasks[t].methodName, tasks[t].arg,
       tasks[t].delegationIdentity[1].delegation.publicKey[2], nonce>> :
          nonce \in Nonces}

\* C15: when the transport answers a delegated call, the call returns the
\* transport's identifier, that identifier and no other joins the marker set,
\* the cache is unchanged, and the signer's callCanister has not been and is
\* not invoked (no content map, no certificate).
C15_DelegatedCall ==
    [][\A t \in Tasks :
        (/\ tasks[t].op = "call"
         /\ tasks[t].pc = "transport"
         /\ tasks'[t].pc # "transport"
         /\ tasks'[t].error # CollaboratorError)
        => /\ tasks'[t].pc = "done"
           /\ tasks'[t].requestId # None
           /\ tasks'[t].requestId[1] \in TransportIdsOf(t)
           /\ delegatedRequestIds' =
                 delegatedRequestIds \cup {toBase64(tasks'[t].requestId[1])}
           /\ readStateResponses' = readStateResponses
           /\ tasks[t].requestBody = None /\ tasks'[t].requestBody = None
           /\ tasks'[t].certificate = None]_vars

\* A delegated call has returned and its identifier is a marker.
C15_Witness ==
    \E t \in Tasks :
        /\ tasks[t].op = "call" /\ tasks[t].pc = "done"
        /\ tasks[t].requestBody = None
        /\ tasks[t].requestId # None
        /\ toBase64(tasks[t].requestId[1]) \in delegatedRequestIds

\* C16: with a fixed identity configured, every task that holds a base
\* identity holds the configured one, whatever its account; no task waits on
\* storage for a base identity, storage holds none, and none is generated.
C16_IdentityOverride ==
    configuredIdentity # None =>
        /\ generated = 0
        /\ AccountsWithIdentity = {}
        /\ \A t \in Tasks :
              /\ tasks[t].pc \notin {"identity_get", "identity_create"}
              /\ tasks[t].baseIdentity # None =>
                    tasks[t].baseIdentity = configuredIdentity
              /\ tasks[t].delegationIdentity # None =>
                    tasks[t].delegationIdentity[1].inner = configuredIdentity[1]

\* Two invocations for different accounts both hold the configured identity.
C16_Witness ==
    /\ configuredIdentity # None
    /\ \E t, u \in Tasks :
          /\ tasks[t].sender # None /\ tasks[u].sender # None
          /\ tasks[t].sender # tasks[u].sender
          /\ tasks[t].baseIdentity = configuredIdentity
          /\ tasks[u].baseIdentity = configuredIdentity

\* C17: no step of a createReadStateRequest changes the cache or the marker
\* set.  Started on a marked identifier it goes on to the transport, from
\* which alone it returns a request; started on an unmarked one it returns
\* nothing at once.
C17_CreateReadStateRequestFrame ==
    [][\A t \in Tasks :
        /\ (\/ Begins(t, "createReadStateRequest")
            \/ /\ tasks[t].op = "createReadStateRequest"
               /\ ~Settled(tasks[t].pc)
               /\ tasks'[t] # tasks[t])
           => /\ readStateResponses' = readStateResponses
              /\ delegatedRequestIds' = delegatedRequestIds
        /\ \A id \in RequestIds :
              (/\ Begins(t, "createReadStateRequest")
               /\ tasks'[t].paths = StatusPaths(id))
              => IF toBase64(id) \in delegatedRequestIds
                 THEN tasks'[t].pc = "principal"
                 ELSE tasks'[t].pc = "done" /\ tasks'[t].request = None
        /\ (/\ tasks[t].op = "createReadStateRequest"
            /\ ~Settled(tasks[t].pc)
            /\ tasks'[t].pc = "done")
           => /\ tasks[t].pc = "transport"
              /\ tasks[t].delegationIdentity # None
              /\ tasks'[t].request # None]_vars

\* A createReadStateRequest for a marked identifier has returned the
\* transport's request, and the marker is still there.
C17_Witness ==
    \E t \in Tasks :
        /\ tasks[t].op = "createReadStateRequest" /\ tasks[t].pc = "done"
        /\ tasks[t].request # None
        /\ toBase64(tasks[t].requestId[1]) \in delegatedRequestIds

\* C18: a readState started on a marked identifier has removed the marker
\* when it first suspends; the step in which a suspended readState throws
\* changes neither the marker set nor the cache, so the marker is not
\* restored; and a readState for an identifier that is neither marked nor
\* cached throws the missing-correlation error without suspending.
C18_MarkerNotRestored ==
    [][/\ \A t \in Tasks, id \in RequestIds :
            (/\ Begins(t, "readState")
             /\ tasks'[t].paths = StatusPaths(id)
             /\ toBase64(id) \in delegatedRequestIds)
            => /\ ~Settled(tasks'[t].pc)
               /\ toBase64(id) \notin delegatedRequestIds'
       /\ \A t \in Tasks :
            (/\ tasks[t].op = "readState"
             /\ ~Settled(tasks[t].pc)
             /\ tasks'[t].pc = "failed")
            => /\ delegatedRequestIds' = delegatedRequestIds
               /\ readStateResponses' = readStateResponses
               /\ tasks'[t].response = None
       /\ \A t \in Tasks :
            (tasks[t].op = "readState" /\ ~Settled(tasks[t].pc))
            => tasks[t].requestId # None
       /\ AbsentReadStateFails]_vars

\* A readState for a marked identifier has thrown at one of its awaits, and
\* the marker is gone.
C18_Witness ==
    \E t \in Tasks :
        /\ tasks[t].op = "readState" /\ tasks[t].pc = "failed"
        /\ tasks[t].error = CollaboratorError
        /\ WellFormed(tasks[t].paths)
        /\ toBase64(tasks[t].paths[1][2]) \notin delegatedRequestIds
        /\ toBase64(tasks[t].paths[1][2]) \notin DOMAIN readStateResponses

\* The event comes from the configured window and origin and carries a
\* JSON-RPC response.
FromSigner(event) ==
    /\ event.source = "signerWindow"
    /\ event.origin = "https://signer.example"
    /\ event.data \in {[jsonrpc |-> "2.0", id |-> "1", result |-> "ok"],
                       [jsonrpc |-> "2.0", id |-> "1", error |-> "denied"]}

\* The listener calls a step adds.
NewCalls ==
    SubSeq(listenerCalls', Len(listenerCalls) + 1, Len(listenerCalls'))

\* C19: a message event from the configured window and origin that carries a
\* JSON-RPC response is handed, once, to the listener of every registration
\* attached at the time, and to no other; every other event, and every step
\* that is not the dispatch of an event, calls no listener; a registration
\* whose returned function has been called is detached and stays detached, so
\* its listener is not called again.
C19_ListenerFilter ==
    [][/\ IF Len(messageEvents') = Len(messageEvents) + 1
             /\ FromSigner(messageEvents'[Len(messageEvents')])
          THEN /\ Len(listenerCalls') = Len(listenerCalls) + Cardinality(messageListeners)
               /\ {NewCalls[i] : i \in 1 .. Len(NewCalls)} =
                     {[id |-> l.id, listener |-> l.listener,
                       data |-> messageEvents'[Len(messageEvents')].data] :
                          l \in messageListeners}
          ELSE listenerCalls' = listenerCalls
       /\ \A l \in messageListeners' : l.id \notin removedListeners'
       /\ \A i \in 1 .. Len(NewCalls) : NewCalls[i].id \notin removedListeners]_vars

\* A response from the signer reached the listener, an event of another
\* origin did not, and after the registration was removed a further response
\* did not either.
C19_Witness ==
    /\ registered = 1 /\ removedListeners = {1}
    /\ Len(messageEvents) = 3
    /\ FromSigner(messageEvents[1])
    /\ messageEvents[2].origin # "https://signer.example"
    /\ FromSigner(messageEvents[3])
    /\ Len(listenerCalls) = 1
    /\ listenerCalls[1].data = messageEvents[1].data

\* C20: a send on a closed window settles with the "Communication channel is
\* closed" error and posts nothing; a send on an open window posts the request
\* once, to the configured origin; no other step posts; the window is closed
\* once close() has been called, and a closed window stays closed.
C20_SendOnClosedWindow ==
    [][/\ IF Len(sendResults') = Len(sendResults) + 1
          THEN IF windowClosed
               THEN /\ sendResults'[Len(sendResults')] = "Communication channel is closed"
                    /\ windowMessages' = windowMessages
               ELSE /\ sendResults'[Len(sendResults')] = "resolved"
                    /\ Len(windowMessages') = Len(windowMessages) + 1
                    /\ SubSeq(windowMessages', 1, Len(windowMessages)) = windowMessages
                    /\ windowMessages'[Len(windowMessages')].message \in JsonRequests
                    /\ windowMessages'[Len(windowMessages')].targetOrigin =
                          "https://signer.example"
          ELSE windowMessages' = windowMessages /\ sendResults' = sendResults
       /\ closeCalled' => windowClosed'
       /\ windowClosed => windowClosed']_vars

\* A send on the open window was posted; after close() a second one failed.
C20_Witness ==
    /\ closeCalled
    /\ sendResults = <<"resolved", "Communication channel is closed">>
    /\ Len(windowMessages) = 1

====
